---- MODULE Spec2Model ----
(***************************************************************************)
(* EvidenceFinder front end: the Home page component (search session,     *)
(* source-type catalog, filter selection, loading-message rotation) and   *)
(* the EvidenceCard domain helper.                                         *)
(*                                                                         *)
(* Strings the code inspects character by character (the query, a link)   *)
(* are sequences of one-character strings.  A nullable value is <<>> for  *)
(* null/undefined and <<x>> for the value x.                               *)
(***************************************************************************)
EXTENDS Integers, Sequences, FiniteSets, TLC

VARIABLES query, results, isLoading, error, sourceTypes, selectedTypes,
          hasSearched, loadingMessage,
          index, interval,
          inflight, issued, calls, lastSettled, catalogFetch,
          link, shownDomain

homeVars == <<query, results, isLoading, error, sourceTypes, selectedTypes,
              hasSearched, loadingMessage, index, interval,
              inflight, issued, calls, lastSettled, catalogFetch>>
cardVars == <<link, shownDomain>>
vars == <<homeVars, cardVars>>

\* The component state handleSearch's early return must leave alone.
sessionVars == <<query, results, isLoading, error, sourceTypes, selectedTypes,
                 hasSearched, loadingMessage, index, interval, inflight, issued>>

----------------------------------------------------------------------------
\* Bounds of the exploration.
MaxCalls == 2
MaxSoloRequests == 1
MaxQueryLen == 2
MaxHostLen == 5

QueryChars == {" ", "a"}
FilterValues == {"news", "academic"}
CardLists == {<<>>, <<"c1">>}
LinkChars == {"w", ".", "a", "/"}

None == <<>>
Some(x) == <<x>>

SeqsUpTo(S, n) == UNION {[1..k -> S] : k \in 0..n}
ToSet(s) == {s[i] : i \in DOMAIN s}
NoDuplicates(s) == \A i, j \in DOMAIN s : s[i] = s[j] => i = j

----------------------------------------------------------------------------
\* String.prototype.trim: strips leading and trailing white space.
RECURSIVE TrimStart(_)
TrimStart(s) ==
    IF s = <<>> THEN <<>>
    ELSE IF Head(s) = " " THEN TrimStart(Tail(s)) ELSE s

RECURSIVE TrimEnd(_)
TrimEnd(s) ==
    IF s = <<>> THEN <<>>
    ELSE IF s[Len(s)] = " " THEN TrimEnd(SubSeq(s, 1, Len(s) - 1)) ELSE s

\* Variant: the query is used as typed.
trim_AsTyped(s) == s

trim(s) == TrimEnd(TrimStart(s))

\* The eight messages of the rotation, and the initial one.
loadingMessages ==
    << "INITIALIZING SEARCH PROTOCOL...",
       "BYPASSING KNOWLEDGE BARRIERS...",
       "QUERYING GLOBAL DATA VECTORS...",
       "HARVESTING UNSTRUCTURED EVIDENCE...",
       "DECODING SOURCE CREDIBILITY...",
       "AI MATRIX ANALYSIS IN PROGRESS...",
       "MAPPING DATA RELATIONSHIPS...",
       "FINALIZING EVIDENCE SYNTHESIS..." >>

InitialLoadingMessage == "ANALYZING EVIDENCE..."

\* loadingMessages[i] with the code's 0-based index.
MessageAt(i) == loadingMessages[i + 1]

\* index = (index + 1) % loadingMessages.length
NextIndex(i) == (i + 1) % Len(loadingMessages)

----------------------------------------------------------------------------
\* What the search fetch can come back with.  network: fetch resolved;
\* ok: response.ok; body: the parsed JSON, None when response.json() rejects.
Responses(q) ==
    {[query |-> q, evidence_cards |-> cs, total_results |-> Len(cs)] : cs \in CardLists}

SearchOutcomes(q) ==
    {[network |-> FALSE, ok |-> FALSE, body |-> None]}
      \cup {[network |-> TRUE, ok |-> FALSE, body |-> None]}
      \cup {[network |-> TRUE, ok |-> TRUE, body |-> None]}
      \cup {[network |-> TRUE, ok |-> TRUE, body |-> Some(d)] : d \in Responses(q)}

Succeeded(o) == o.network /\ o.ok /\ o.body # None

\* The value the try block throws for a failed outcome.
Thrown(o) ==
    IF ~o.network THEN [instanceofError |-> TRUE, message |-> "Failed to fetch"]
    ELSE IF ~o.ok THEN [instanceofError |-> TRUE, message |-> "Search failed. Please try again."]
    ELSE [instanceofError |-> TRUE, message |-> "Unexpected token < in JSON at position 0"]

\* err instanceof Error ? err.message : 'An unexpected error occurred'
ErrorMessage(err) ==
    IF err.instanceofError THEN err.message ELSE "An unexpected error occurred"

\* Variant: the selection is sent as it is, an empty array included.
SourceTypesPayload_AlwaysArray(sel) == Some(sel)

\* source_types: selectedTypes.length > 0 ? selectedTypes : null
SourceTypesPayload(sel) == IF Len(sel) > 0 THEN Some(sel) ELSE None

RequestBody(q, sel) == [query |-> trim(q), source_types |-> SourceTypesPayload(sel)]

\* What GET /api/source-types can come back with.  body.kind: "notjson"
\* (res.json() rejects), "null" (JSON null, so data.source_types throws) or
\* "object"; an object's source_types is None when the property is missing.
CatalogLists == {<<>>, <<"news", "academic">>}

CatalogBodies ==
    {[kind |-> "notjson", source_types |-> None], [kind |-> "null", source_types |-> None],
     [kind |-> "object", source_types |-> None]}
      \cup {[kind |-> "object", source_types |-> Some(l)] : l \in CatalogLists}

\* A non-2xx response does not carry a catalog.
CatalogOutcomes ==
    {[network |-> FALSE, ok |-> FALSE, body |-> [kind |-> "notjson", source_types |-> None]]}
      \cup {[network |-> TRUE, ok |-> TRUE, body |-> b] : b \in CatalogBodies}
      \cup {[network |-> TRUE, ok |-> FALSE, body |-> b] :
                b \in {c \in CatalogBodies : c.source_types = None}}

\* The fetch failed: network error, non-2xx, or no usable source_types list.
CatalogFailed(o) ==
    \/ ~o.network
    \/ ~o.ok
    \/ o.body.kind # "object"
    \/ o.body.source_types = None

----------------------------------------------------------------------------
\* Render guards of Home.
Mounted == sourceTypes # None
FilterSectionShown == Mounted /\ Len(sourceTypes[1]) > 0
LoadingShown == isLoading
ErrorShown == error # None /\ error[1] # ""
ResultsShown == results # None /\ ~isLoading
InitialEmptyShown == ~hasSearched /\ ~isLoading
ButtonDisabled == isLoading \/ trim(query) = <<>>

----------------------------------------------------------------------------
HomeInit ==
    /\ query = <<>>
    /\ results = None
    /\ isLoading = FALSE
    /\ error = None
    /\ sourceTypes = Some(<<>>)
    /\ selectedTypes = <<>>
    /\ hasSearched = FALSE
    /\ loadingMessage = InitialLoadingMessage
    /\ index = 0
    /\ interval = FALSE
    /\ inflight = <<>>
    /\ issued = 0
    /\ calls = 0
    /\ lastSettled = None
    /\ catalogFetch = "pending"

Init ==
    /\ HomeInit
    /\ link = <<>>
    /\ shownDomain = None

\* Variant: the effect starts the interval without showing the first message.
RotationEffect_NoFirstMessage(newLoading) ==
    IF newLoading = isLoading
    THEN UNCHANGED <<loadingMessage, index, interval>>
    ELSE /\ index' = 0
         /\ interval' = newLoading
         /\ UNCHANGED loadingMessage

\* The effect on [isLoading]: it runs only when the flag changed between
\* renders; the cleanup clears the old interval, the body starts a new one.
RotationEffect(newLoading) ==
    IF newLoading = isLoading
    THEN UNCHANGED <<loadingMessage, index, interval>>
    ELSE IF newLoading
         THEN /\ index' = 0
              /\ loadingMessage' = MessageAt(0)
              /\ interval' = TRUE
         ELSE /\ index' = 0
              /\ interval' = FALSE
              /\ UNCHANGED loadingMessage

\* The setInterval callback.
Tick ==
    /\ Mounted
    /\ interval
    /\ index' = NextIndex(index)
    /\ loadingMessage' = MessageAt(NextIndex(index))
    /\ UNCHANGED <<query, results, isLoading, error, sourceTypes, selectedTypes,
                   hasSearched, interval, inflight, issued, calls, lastSettled,
                   catalogFetch, link, shownDomain>>

\* onChange of the input.
SetQuery(q) ==
    /\ Mounted
    /\ q # query
    /\ query' = q
    /\ UNCHANGED <<results, isLoading, error, sourceTypes, selectedTypes,
                   hasSearched, loadingMessage, index, interval, inflight,
                   issued, calls, lastSettled, catalogFetch, link, shownDomain>>

\* handleSearch up to the await of fetch.
handleSearch ==
    /\ calls < MaxCalls
    /\ calls' = calls + 1
    /\ IF trim(query) = <<>>
       THEN UNCHANGED sessionVars
       ELSE /\ isLoading' = TRUE
            /\ error' = None
            /\ hasSearched' = TRUE
            /\ issued' = issued + 1
            /\ inflight' = (issued + 1 :> RequestBody(query, selectedTypes)) @@ inflight
            /\ RotationEffect(TRUE)
            /\ UNCHANGED <<query, results, sourceTypes, selectedTypes>>
    /\ UNCHANGED <<lastSettled, catalogFetch, link, shownDomain>>

\* The form's submit event; the submit button is disabled while loading or
\* while the trimmed query is empty.
FormSubmit ==
    /\ Mounted
    /\ ~ButtonDisabled
    /\ handleSearch

\* Enter in the input calls handleSearch directly, whatever the button's state.
handleKeyPress ==
    /\ Mounted
    /\ handleSearch

\* Variant: the catch block keeps the previous results.
SettleSearch_KeepsResults(r, o) ==
    /\ Mounted
    /\ r \in DOMAIN inflight
    /\ inflight' = [x \in DOMAIN inflight \ {r} |-> inflight[x]]
    /\ lastSettled' = Some(o)
    /\ IF Succeeded(o)
       THEN /\ results' = o.body
            /\ UNCHANGED error
       ELSE /\ error' = Some(ErrorMessage(Thrown(o)))
            /\ UNCHANGED results
    /\ isLoading' = FALSE
    /\ RotationEffect(FALSE)
    /\ UNCHANGED <<query, sourceTypes, selectedTypes, hasSearched, issued, calls,
                   catalogFetch, link, shownDomain>>

\* Variant: the loading flag is lowered only by the last outstanding request.
SettleSearch_CountsOutstanding(r, o) ==
    /\ Mounted
    /\ r \in DOMAIN inflight
    /\ inflight' = [x \in DOMAIN inflight \ {r} |-> inflight[x]]
    /\ lastSettled' = Some(o)
    /\ IF Succeeded(o)
       THEN /\ results' = o.body
            /\ UNCHANGED error
       ELSE /\ error' = Some(ErrorMessage(Thrown(o)))
            /\ results' = None
    /\ isLoading' = (DOMAIN inflight # {r})
    /\ RotationEffect(DOMAIN inflight # {r})
    /\ UNCHANGED <<query, sourceTypes, selectedTypes, hasSearched, issued, calls,
                   catalogFetch, link, shownDomain>>

\* handleSearch from the resolution of fetch to the end of finally.
SettleSearch(r, o) ==
    /\ Mounted
    /\ r \in DOMAIN inflight
    /\ inflight' = [x \in DOMAIN inflight \ {r} |-> inflight[x]]
    /\ lastSettled' = Some(o)
    /\ IF Succeeded(o)
       THEN /\ results' = o.body
            /\ UNCHANGED error
       ELSE /\ error' = Some(ErrorMessage(Thrown(o)))
            /\ results' = None
    /\ isLoading' = FALSE
    /\ RotationEffect(FALSE)
    /\ UNCHANGED <<query, sourceTypes, selectedTypes, hasSearched, issued, calls,
                   catalogFetch, link, shownDomain>>

\* Variant: the value is appended whether or not it is selected.
toggleSourceType_AlwaysAppend(prev, type) == Append(prev, type)

\* prev.includes(type) ? prev.filter(t => t !== type) : [...prev, type]
toggleSourceType(prev, type) ==
    IF type \in ToSet(prev)
    THEN SelectSeq(prev, LAMBDA t : t # type)
    ELSE Append(prev, type)

\* A click on a chip of FilterChips; the chips are the catalog's values.
ToggleChip(v) ==
    /\ FilterSectionShown
    /\ v \in ToSet(sourceTypes[1])
    /\ selectedTypes' = toggleSourceType(selectedTypes, v)
    /\ UNCHANGED <<query, results, isLoading, error, sourceTypes, hasSearched,
                   loadingMessage, index, interval, inflight, issued, calls,
                   lastSettled, catalogFetch, link, shownDomain>>

\* The mount effect: fetch, res.json(), setSourceTypes(data.source_types),
\* with a catch that only logs.  res.ok is not consulted.
LoadSourceTypes(o) ==
    /\ catalogFetch = "pending"
    /\ catalogFetch' = IF CatalogFailed(o) THEN "failed" ELSE "loaded"
    /\ IF o.network /\ o.body.kind = "object"
       THEN sourceTypes' = o.body.source_types
       ELSE UNCHANGED sourceTypes
    /\ UNCHANGED <<query, results, isLoading, error, selectedTypes, hasSearched,
                   loadingMessage, index, interval, inflight, issued, calls,
                   lastSettled, link, shownDomain>>

Next ==
    \/ Tick
    \/ \E o \in CatalogOutcomes : LoadSourceTypes(o)
    \/ \E v \in FilterValues : ToggleChip(v)
    \/ \E q \in SeqsUpTo(QueryChars, MaxQueryLen) : SetQuery(q)
    \/ FormSubmit
    \/ handleKeyPress
    \/ \E r \in DOMAIN inflight : \E o \in SearchOutcomes(inflight[r].query) : SettleSearch(r, o)

Spec == Init /\ [][Next]_vars

\* The page while the 2000 ms timer does not fire and at most
\* MaxSoloRequests searches are sent.
FilterNext ==
    \/ \E o \in CatalogOutcomes : LoadSourceTypes(o)
    \/ \E v \in FilterValues : ToggleChip(v)
    \/ \E q \in SeqsUpTo(QueryChars, MaxQueryLen) : SetQuery(q)
    \/ (issued < MaxSoloRequests /\ FormSubmit)
    \/ (issued < MaxSoloRequests /\ handleKeyPress)
    \/ \E r \in DOMAIN inflight : \E o \in SearchOutcomes(inflight[r].query) : SettleSearch(r, o)

FilterSpec == Init /\ [][FilterNext]_vars

\* The page while the catalog response has not arrived.
RotatorNext ==
    \/ Tick
    \/ \E q \in SeqsUpTo(QueryChars, MaxQueryLen) : SetQuery(q)
    \/ FormSubmit
    \/ handleKeyPress
    \/ \E r \in DOMAIN inflight : \E o \in SearchOutcomes(inflight[r].query) : SettleSearch(r, o)

RotatorSpec == Init /\ [][RotatorNext]_vars

----------------------------------------------------------------------------
\* EvidenceCard.getDomain.  A link is an optional "https://" followed by
\* characters of LinkChars.
SchemeToken == "https://"
Source == <<"s", "o", "u", "r", "c", "e">>
Www == <<"w", "w", "w", ".">>

Links ==
    LET rests == SeqsUpTo(LinkChars, MaxHostLen)
    IN  rests \cup {<<SchemeToken>> \o r : r \in rests}

RECURSIVE SkipSlashes(_)
SkipSlashes(s) ==
    IF s = <<>> THEN <<>>
    ELSE IF Head(s) = "/" THEN SkipSlashes(Tail(s)) ELSE s

RECURSIVE UpToSlash(_)
UpToSlash(s) ==
    IF s = <<>> THEN <<>>
    ELSE IF Head(s) = "/" THEN <<>> ELSE <<Head(s)>> \o UpToSlash(Tail(s))

\* new URL(url).hostname: None when the constructor throws (no scheme, or an
\* empty host); slashes after the scheme are skipped, the host ends at the
\* next slash.
Hostname(url) ==
    IF url = <<>> \/ Head(url) # SchemeToken THEN None
    ELSE LET host == UpToSlash(SkipSlashes(Tail(url)))
         IN  IF host = <<>> THEN None ELSE Some(host)

\* The positions where pat occurs in s.
Occurrences(s, pat) ==
    {i \in 1..(Len(s) - Len(pat) + 1) : SubSeq(s, i, i + Len(pat) - 1) = pat}

\* String.prototype.replace(pat, '') with a string pattern: the first
\* occurrence is removed, wherever it is.
ReplaceFirst(s, pat) ==
    IF Occurrences(s, pat) = {} THEN s
    ELSE LET i == CHOOSE k \in Occurrences(s, pat) : \A m \in Occurrences(s, pat) : k <= m
         IN  SubSeq(s, 1, i - 1) \o SubSeq(s, i + Len(pat), Len(s))

getDomain(url) ==
    IF Hostname(url) = None THEN Source
    ELSE ReplaceFirst(Hostname(url)[1], Www)

CardInit ==
    /\ HomeInit
    /\ link \in Links
    /\ shownDomain = None

\* The card's render: the domain shown next to the link.
RenderCard ==
    /\ shownDomain = None
    /\ shownDomain' = Some(getDomain(link))
    /\ UNCHANGED <<link, homeVars>>

CardNext == RenderCard

CardSpec == CardInit /\ [][CardNext]_vars

----------------------------------------------------------------------------
\* Properties.

IsBlank(s) == \A i \in DOMAIN s : s[i] = " "
Spaces(n) == [i \in 1..n |-> " "]

\* t is q without its leading and trailing spaces.
IsTrimOf(t, q) ==
    /\ t = <<>> \/ (t[1] # " " /\ t[Len(t)] # " ")
    /\ \E i, j \in 0..Len(q) : q = Spaces(i) \o t \o Spaces(j)

Outstanding == DOMAIN inflight
SettledNow == Cardinality(DOMAIN inflight') < Cardinality(DOMAIN inflight)

\* C1: an error message and a result set are never both present, and neither
\* is displayed while the page is loading.
C1_OneStateLive ==
    /\ ~(error # None /\ results # None)
    /\ isLoading => (~ErrorShown /\ ~ResultsShown)

\* C2: once every request has settled, results and error are exactly the
\* outcome of the request that settled last.
C2_LastSettledDecides ==
    (Outstanding = {} /\ lastSettled # None) =>
        IF Succeeded(lastSettled[1])
        THEN results = lastSettled[1].body /\ error = None
        ELSE error = Some(ErrorMessage(Thrown(lastSettled[1]))) /\ results = None

C5_OneRequestWithSnapshot ==
    [][/\ (calls' # calls /\ ~IsBlank(query)) =>
             /\ issued' = issued + 1
             /\ issued' \notin DOMAIN inflight
             /\ DOMAIN inflight' = DOMAIN inflight \cup {issued'}
             /\ IsTrimOf(inflight'[issued'].query, query)
             /\ inflight'[issued'].source_types =
                    (IF selectedTypes = <<>> THEN None ELSE Some(selectedTypes))
       /\ \A r \in DOMAIN inflight \cap DOMAIN inflight' : inflight'[r] = inflight[r]
       /\ (selectedTypes' # selectedTypes \/ query' # query) => inflight' = inflight]_vars

C5_Witness ==
    \E r \in DOMAIN inflight :
        /\ inflight[r].query = <<"a">>
        /\ query = <<>>
        /\ inflight[r].source_types = Some(<<"academic", "news">>)
        /\ selectedTypes = <<"news">>

\* C6: after a failed catalog fetch the catalog is still the empty sequence,
\* the filter section is absent, no banner appears for it, and searches carry
\* source_types null.
C6_CatalogFailureIsSilent ==
    catalogFetch = "failed" =>
        /\ sourceTypes = Some(<<>>)
        /\ ~FilterSectionShown
        /\ error # None => lastSettled # None
        /\ \A r \in DOMAIN inflight : inflight[r].source_types = None

\* C7 as stated: every submission that starts a search shows the first
\* message; a changed message while loading is the next one of the list,
\* wrapping; the message does not change outside loading.
C7_EverySubmissionRestarts ==
    [][/\ issued' # issued => loadingMessage' = loadingMessages[1]
       /\ (isLoading /\ isLoading' /\ issued' = issued /\ loadingMessage' # loadingMessage) =>
             \E k \in DOMAIN loadingMessages :
                 /\ loadingMessage = loadingMessages[k]
                 /\ loadingMessage' = loadingMessages[(k % Len(loadingMessages)) + 1]
       /\ ~isLoading' => loadingMessage' = loadingMessage]_vars

\* C7 amended: the first message is shown when the loading flag goes from
\* false to true; a submission made while the flag is already true leaves the
\* rotation where it is; a changed message while loading is the next one of
\* the list, wrapping; the message does not change outside loading.
C7_RotationFollowsLoadingFlag ==
    [][/\ (~isLoading /\ isLoading') => loadingMessage' = loadingMessages[1]
       /\ (isLoading /\ issued' # issued) => loadingMessage' = loadingMessage
       /\ (isLoading /\ isLoading' /\ issued' = issued /\ loadingMessage' # loadingMessage) =>
             \E k \in DOMAIN loadingMessages :
                 /\ loadingMessage = loadingMessages[k]
                 /\ loadingMessage' = loadingMessages[(k % Len(loadingMessages)) + 1]
       /\ ~isLoading' => loadingMessage' = loadingMessage]_vars

C7_Witness ==
    /\ isLoading
    /\ issued = 2
    /\ Cardinality(Outstanding) = 2
    /\ loadingMessage = loadingMessages[Len(loadingMessages)]

\* C8: the selection never holds a value twice; toggling a value removes it
\* when selected and adds it otherwise; toggling it twice gives back the same
\* members.
C8_TogglePair ==
    /\ NoDuplicates(selectedTypes)
    /\ \A v \in FilterValues :
          LET once == toggleSourceType(selectedTypes, v)
              twice == toggleSourceType(once, v)
          IN  /\ NoDuplicates(once)
              /\ ToSet(once) = IF v \in ToSet(selectedTypes)
                               THEN ToSet(selectedTypes) \ {v}
                               ELSE ToSet(selectedTypes) \cup {v}
              /\ ToSet(twice) = ToSet(selectedTypes)
              /\ NoDuplicates(twice)

C8_Witness == selectedTypes = <<"academic", "news">>

\* The host with a "www." at its start removed, "source" when there is no host.
LeadingWwwStripped(url) ==
    IF Hostname(url) = None THEN Source
    ELSE LET h == Hostname(url)[1]
         IN  IF Len(h) >= Len(Www) /\ SubSeq(h, 1, Len(Www)) = Www
             THEN SubSeq(h, Len(Www) + 1, Len(h))
             ELSE h

\* C9: the domain shown is the host without a leading "www.", the host itself
\* when it has no such prefix, and "source" for a link that does not parse.
C9_OnlyLeadingWwwStripped ==
    shownDomain # None => shownDomain[1] = LeadingWwwStripped(link)

\* C10 as stated: the loading flag is true exactly when a request is outstanding.
C10_LoadingIffOutstanding == isLoading <=> Outstanding # {}

\* C10 amended: the loading flag is true only while a request is outstanding,
\* and every request that settles lowers it, others in flight or not.
C10_LoadingOnlyWhileOutstanding ==
    [][/\ isLoading' => DOMAIN inflight' # {}
       /\ SettledNow => ~isLoading']_vars

C10_Witness ==
    /\ ~isLoading
    /\ Outstanding # {}
    /\ lastSettled # None

====
